---- MODULE Spec2Model ----
(***************************************************************************)
(* Watchdog, job-scheduler log filter and shutdown coordinator of          *)
(* src/log.py, as a state machine over one asyncio event loop.             *)
(*                                                                         *)
(* A step of the model is one synchronous segment of Python code: a whole  *)
(* filter() call, a whole timer callback, or the part of exit_handler()    *)
(* that runs between two awaits.                                           *)
(***************************************************************************)
EXTENDS Integers, Sequences, FiniteSets, Bags

VARIABLES
    count,              \* _APSCFilter.count
    watchdog,           \* _Watchdog._watchdog: id of the TimerHandle it holds
    timers,             \* the loop's scheduled, not cancelled, not yet run handles
    tasks,              \* bag of the exit_handler tasks created by shutdown()
    exitStatus,         \* "running", "1" (SystemExit(1)) or "SIGTERM" (killed by signal)
    loopRunning,        \* env.loop.is_running()
    botPresent,         \* env.bot is not None
    botConnected,       \* env.bot.is_connected()
    lastFilter,         \* history: outcome of the filter call that led to this state
    streak,             \* history: failure records since the last success record
    streakShutdown,     \* history: filter called shutdown() during this streak
    cycleFires,         \* history: expiries of the handle held since the last arm
    record              \* history: the traced call that led to this state

vars == <<count, watchdog, timers, tasks, exitStatus, loopRunning, botPresent,
          botConnected, lastFilter, streak, streakShutdown,
          cycleFires, record>>

-----------------------------------------------------------------------------
(* Bounds of the model *)

MaxCount == 20
MaxTasks == 2

(* Constants of the program *)

NotifyEvery == 5
TerminalAt == 15
InitDelay == 300
FineDelay == 900

\* logging.DEBUG, logging.INFO, logging.WARNING
DEBUG == 10
INFO == 20
WARNING == 30

Levels == {DEBUG, INFO, WARNING}

Delays == {InitDelay, FineDelay}

-----------------------------------------------------------------------------
(* Log messages, as sequences of tokens; `in` is containment of a           *)
(* contiguous run of tokens.  No token but " " starts or ends with a blank, *)
(* so containment of tokens is containment of characters.                   *)

SKIPPED == "skipped: maximum number of running instances reached"

SkippedPat == <<SKIPPED>>
SuccessPat == <<" ", "executed successfully">>
JobStartPat == <<"Running job", " ", "\"run_monitor_task">>

Messages ==
    { <<"Execution of job", " ", SKIPPED>>,
      <<"Job", " ", "executed successfully">>,
      <<"Running job", " ", "\"run_monitor_task">>,
      <<"Running job", " ", "\"other_task">>,
      <<"executed successfully">>,
      <<"Job", " ", "executed successfully", " ", SKIPPED>>,
      <<"Running job", " ", "\"run_monitor_task", " ", "executed successfully">>,
      <<"Scheduler started">> }

\* Records of aiohttp.access, with and without the substring 'Mozilla'.
MarkerPat == <<"Mozilla">>

AccessMessages ==
    { <<"GET / 200 ", "Mozilla", "/5.0">>,
      <<"GET / 200 ", "curl/8.0">> }

Contains(pat, msg) ==
    \E i \in 1..(Len(msg) - Len(pat) + 1) : SubSeq(msg, i, i + Len(pat) - 1) = pat

-----------------------------------------------------------------------------
(* shutdown() and the exit_handler task it creates *)

Alive == exitStatus = "running"

NewTask(prerequisite) ==
    [pc |-> "created", prereq |-> prerequisite, disc |-> FALSE, closed |-> FALSE,
     err |-> FALSE]

\* shutdown without the is_running() test of line 55.
shutdownNoLoopTest(prerequisite) ==
    /\ tasks' = tasks (+) SetToBag({NewTask(prerequisite)})
    /\ UNCHANGED exitStatus

\* shutdown(prerequisite): exit(1) when the loop is not running, otherwise
\* create the exit_handler task and return.
shutdown(prerequisite) ==
    IF ~loopRunning
    THEN /\ exitStatus' = "1"
         /\ UNCHANGED tasks
    ELSE /\ tasks' = tasks (+) SetToBag({NewTask(prerequisite)})
         /\ UNCHANGED exitStatus

CanShutdown == BagCardinality(tasks) < MaxTasks

Outcome(branch, result, notified, shut) ==
    [branch |-> branch, result |-> result, notified |-> notified, shutdown |-> shut]

\* The state was not reached by a call of filter.
NoCall == Outcome("none", "none", "none", FALSE)

\* A call from outside: a record given to one of the two filters
\* ("apscheduler", "aiohttp.access") or a call of fine(delay) ("fine").
Call(source, levelno, msg, delay) ==
    [source |-> source, levelno |-> levelno, msg |-> msg, delay |-> delay]

\* The state was not reached by a traced call.
NoRecord == Call("none", 0, <<>>, 0)

-----------------------------------------------------------------------------
(* _Watchdog *)

\* TimerHandle.cancel() of the held handle: it leaves the loop's schedule.
Cancelled == {h \in timers : h.id # watchdog}

\* env.loop.call_later returns a handle distinct from every scheduled one.
FreshHandle(scheduled) ==
    CHOOSE i \in 1..(Cardinality(scheduled) + 1) :
        /\ i \notin {h.id : h \in scheduled}
        /\ \A j \in 1..(i - 1) : j \in {h.id : h \in scheduled}

\* fine without the cancel() of line 74.
fineNoCancel(delay) ==
    /\ timers' = timers \cup {[id |-> FreshHandle(timers), delay |-> delay]}
    /\ watchdog' = FreshHandle(timers)
    /\ cycleFires' = 0

\* _Watchdog.fine(delay): cancel the held handle, schedule and hold a new one.
fine(delay) ==
    /\ timers' = Cancelled \cup {[id |-> FreshHandle(Cancelled), delay |-> delay]}
    /\ watchdog' = FreshHandle(Cancelled)
    /\ cycleFires' = 0

\* _exit_bot without the None test of line 69: send_message on None raises.
ExitBotUnguarded(delay) ==
    IF botPresent THEN shutdown("pending") ELSE UNCHANGED <<tasks, exitStatus>>

\* _Watchdog._exit_bot(delay): compose the notification when there is a bot,
\* then shutdown(prerequisite=coro).
ExitBot(delay) ==
    shutdown(IF botPresent THEN "pending" ELSE "none")

\* The loop runs a due handle: the callback of _Watchdog.__init__ / fine.
WatchdogExpire ==
    /\ Alive /\ loopRunning /\ CanShutdown
    /\ \E h \in timers :
        /\ timers' = timers \ {h}
        /\ cycleFires' = IF h.id = watchdog THEN cycleFires + 1 ELSE cycleFires
        /\ ExitBot(h.delay)
    /\ lastFilter' = NoCall
    /\ record' = NoRecord
    /\ UNCHANGED <<count, watchdog, loopRunning, botPresent, botConnected,
                   streak, streakShutdown>>

\* fine(delay) that also resets the counter of the filter.
FineCallResetsCount(delay) ==
    /\ Alive
    /\ fine(delay)
    /\ count' = 0
    /\ lastFilter' = NoCall
    /\ UNCHANGED <<tasks, exitStatus, loopRunning, botPresent, botConnected,
                   streak, streakShutdown>>

\* apsc_filter.watchdog.fine(delay) called by a component outside the filter.
FineCall(delay) ==
    /\ Alive
    /\ fine(delay)
    /\ lastFilter' = NoCall
    /\ UNCHANGED <<count, tasks, exitStatus, loopRunning, botPresent, botConnected,
                   streak, streakShutdown>>

Heartbeat ==
    \E delay \in Delays : FineCall(delay) /\ record' = NoRecord

\* The same, with the call kept in record.
HeartbeatTraced ==
    \E delay \in Delays : FineCall(delay) /\ record' = Call("fine", 0, <<>>, delay)

-----------------------------------------------------------------------------
(* _APSCFilter.filter *)

\* The multiple-of-5 test made on the count before the increment.
NotifyDueBeforeIncrement(c) == c - 1 # 0 /\ (c - 1) % NotifyEvery = 0

NotifyDue(c) == c # 0 /\ c % NotifyEvery = 0

\* The threshold test with > for >=.
TerminalStrict(c) == c > TerminalAt

Terminal(c) == c >= TerminalAt

\* Lines 87-103: the 'skipped: maximum number of running instances reached' rule.
OnFailure ==
    LET c == count + 1 IN
    /\ count' = c
    /\ streak' = streak + 1
    /\ IF ~NotifyDue(c)
       THEN /\ lastFilter' = Outcome("failure", "pass", "none", FALSE)
            /\ UNCHANGED <<tasks, exitStatus, streakShutdown>>
       ELSE IF ~botPresent
       THEN \* env.bot is None: env.bot.send_message raises AttributeError
            /\ lastFilter' = Outcome("failure", "raise", "none", FALSE)
            /\ UNCHANGED <<tasks, exitStatus, streakShutdown>>
       ELSE IF Terminal(c)
       THEN /\ shutdown("pending")
            /\ streakShutdown' = TRUE
            /\ lastFilter' = IF loopRunning
                             THEN Outcome("failure", "pass", "prerequisite", TRUE)
                             ELSE Outcome("failure", "exit", "unsent", TRUE)
       ELSE \* env.loop.create_task(coro)
            /\ lastFilter' = Outcome("failure", "pass", "task", FALSE)
            /\ UNCHANGED <<tasks, exitStatus, streakShutdown>>
    /\ UNCHANGED <<watchdog, timers, cycleFires>>

\* The success rule without the call of watchdog.fine().
OnSuccessNoRearm ==
    /\ count' = 0
    /\ streak' = 0
    /\ streakShutdown' = FALSE
    /\ lastFilter' = Outcome("success", "suppress", "none", FALSE)
    /\ UNCHANGED <<watchdog, timers, cycleFires, tasks, exitStatus>>

\* Lines 104-107: the ' executed successfully' rule.
OnSuccess ==
    /\ count' = 0
    /\ streak' = 0
    /\ streakShutdown' = FALSE
    /\ fine(FineDelay)
    /\ lastFilter' = Outcome("success", "suppress", "none", FALSE)
    /\ UNCHANGED <<tasks, exitStatus>>

\* The last two rules resetting the counter as the success rule does.
NoEffectResets(branch, result) ==
    /\ lastFilter' = Outcome(branch, result, "none", FALSE)
    /\ count' = 0
    /\ UNCHANGED <<streak, streakShutdown, watchdog, timers, cycleFires,
                   tasks, exitStatus>>

\* The last two rules re-arming the watchdog as the success rule does.
NoEffectRearms(branch, result) ==
    /\ lastFilter' = Outcome(branch, result, "none", FALSE)
    /\ fine(FineDelay)
    /\ UNCHANGED <<count, streak, streakShutdown, tasks, exitStatus>>

\* Lines 108-109 and 110: no side effect.
NoEffect(branch, result) ==
    /\ lastFilter' = Outcome(branch, result, "none", FALSE)
    /\ UNCHANGED <<count, streak, streakShutdown, watchdog, timers, cycleFires,
                   tasks, exitStatus>>

\* The rules with the success rule tested first.
filterSuccessFirst(msg) ==
    IF Contains(SuccessPat, msg) THEN OnSuccess
    ELSE IF Contains(SkippedPat, msg) THEN OnFailure
    ELSE IF Contains(JobStartPat, msg) THEN NoEffect("jobstart", "suppress")
    ELSE NoEffect("nomatch", "pass")

filter(msg) ==
    IF Contains(SkippedPat, msg) THEN OnFailure
    ELSE IF Contains(SuccessPat, msg) THEN OnSuccess
    ELSE IF Contains(JobStartPat, msg) THEN NoEffect("jobstart", "suppress")
    ELSE NoEffect("nomatch", "pass")

WillShutdown(msg) ==
    /\ Contains(SkippedPat, msg)
    /\ botPresent /\ NotifyDue(count + 1) /\ Terminal(count + 1)

\* apsc_filter.filter(record) with record.msg % record.args = msg.
FilterCall(msg) ==
    /\ Alive
    /\ Contains(SkippedPat, msg) => count < MaxCount
    /\ WillShutdown(msg) => CanShutdown
    /\ filter(msg)
    /\ UNCHANGED <<loopRunning, botPresent, botConnected>>

\* A record of apscheduler.scheduler / apscheduler.executors.default is logged.
FilterRecord ==
    \E msg \in Messages : FilterCall(msg) /\ record' = NoRecord

\* The same, with the record kept in record.
FilterTraced ==
    \E msg \in Messages :
        FilterCall(msg) /\ record' = Call("apscheduler", INFO, msg, 0)

-----------------------------------------------------------------------------
(* AiohttpAccessFilter.filter *)

\* The level test with < for <=.
AccessFilterStrict(levelno, msg) ==
    IF levelno < INFO /\ ~Contains(MarkerPat, msg) THEN "suppress" ELSE "pass"

AccessFilter(levelno, msg) ==
    IF levelno <= INFO /\ ~Contains(MarkerPat, msg) THEN "suppress" ELSE "pass"

\* aiohttp_access_filter.filter(record): it returns and touches nothing else.
AccessCall(levelno, msg) ==
    /\ Alive
    /\ lastFilter' = Outcome("access", AccessFilter(levelno, msg), "none", FALSE)
    /\ UNCHANGED <<count, watchdog, timers, tasks, exitStatus, loopRunning,
                   botPresent, botConnected, streak, streakShutdown, cycleFires>>

\* A record of aiohttp.access is logged; the record is kept in record.
AccessTraced ==
    \E levelno \in Levels, msg \in AccessMessages :
        AccessCall(levelno, msg) /\ record' = Call("aiohttp.access", levelno, msg, 0)

-----------------------------------------------------------------------------
(* exit_handler, one action per segment between awaits *)

\* The handler with exit(1) inside the try block: nothing exits after a
\* SIGTERM that does not kill.
ExceptHandlerNoExit == exitStatus' \in {"SIGTERM", "running"}

\* Lines 49-51, os.kill(os.getpid(), SIGTERM) and then exit(1): under the
\* default disposition the signal kills the process; when the program has
\* installed a handler or ignores the signal, line 51 is reached.
ExceptHandler == exitStatus' \in {"SIGTERM", "1"}

\* Lines 43-47 up to the first await: disconnect a connected bot, otherwise go
\* straight to the finally block and call Tortoise.close_connections().
TryDisconnect(t) ==
    IF botPresent /\ botConnected
    THEN [t EXCEPT !.pc = "disconnect", !.disc = TRUE]
    ELSE [t EXCEPT !.pc = "close", !.closed = TRUE]

TaskAt(t, pc) == Alive /\ loopRunning /\ BagIn(t, tasks) /\ t.pc = pc

\* The task t goes on as u.
Becomes(t, u) == tasks' = (tasks (-) SetToBag({t})) (+) SetToBag({u})

EnvUnchanged ==
    /\ lastFilter' = NoCall
    /\ record' = NoRecord
    /\ UNCHANGED <<count, watchdog, timers, loopRunning, botPresent, streak,
                   streakShutdown, cycleFires>>

\* The task starts: lines 37-40, or 37-38 and 43-47 without a prerequisite.
ExitHandlerStart(t) ==
    /\ TaskAt(t, "created")
    /\ Becomes(t, IF t.prereq = "none" THEN TryDisconnect(t)
                    ELSE [t EXCEPT !.pc = "wait", !.prereq = "running"])
    /\ UNCHANGED <<exitStatus, botConnected>>
    /\ EnvUnchanged

\* wait_for returns: the prerequisite completed within the timeout.
PrerequisiteDone(t) ==
    /\ TaskAt(t, "wait")
    /\ Becomes(t, TryDisconnect([t EXCEPT !.prereq = "done"]))
    /\ UNCHANGED <<exitStatus, botConnected>>
    /\ EnvUnchanged

\* The timeout of a shielded prerequisite, which goes on running.
PrerequisiteTimeoutShielded(t) ==
    /\ TaskAt(t, "wait")
    /\ Becomes(t, TryDisconnect(t))
    /\ UNCHANGED <<exitStatus, botConnected>>
    /\ EnvUnchanged

\* wait_for cancels the prerequisite and raises TimeoutError: lines 41-42.
PrerequisiteTimeout(t) ==
    /\ TaskAt(t, "wait")
    /\ Becomes(t, TryDisconnect([t EXCEPT !.prereq = "cancelled"]))
    /\ UNCHANGED <<exitStatus, botConnected>>
    /\ EnvUnchanged

\* The prerequisite raises: wait_for re-raises it, line 41 does not catch it,
\* line 48 does.
PrerequisiteRaise(t) ==
    /\ TaskAt(t, "wait")
    /\ Becomes(t, [t EXCEPT !.pc = "finished", !.prereq = "raised"])
    /\ ExceptHandler
    /\ UNCHANGED botConnected
    /\ EnvUnchanged

\* env.bot.disconnect() returns; the finally block calls close_connections().
DisconnectReturn(t) ==
    /\ TaskAt(t, "disconnect")
    /\ botConnected' = FALSE
    /\ Becomes(t, [t EXCEPT !.pc = "close", !.closed = TRUE])
    /\ UNCHANGED exitStatus
    /\ EnvUnchanged

\* env.bot.disconnect() raises; the finally block still calls close_connections().
DisconnectRaise(t) ==
    /\ TaskAt(t, "disconnect")
    /\ Becomes(t, [t EXCEPT !.pc = "close", !.closed = TRUE, !.err = TRUE])
    /\ UNCHANGED <<exitStatus, botConnected>>
    /\ EnvUnchanged

\* close_connections() returns: a pending exception of disconnect goes to
\* line 48, otherwise exit(1) at line 51.
CloseReturn(t) ==
    /\ TaskAt(t, "close")
    /\ Becomes(t, [t EXCEPT !.pc = "finished"])
    /\ IF t.err THEN ExceptHandler ELSE exitStatus' = "1"
    /\ UNCHANGED botConnected
    /\ EnvUnchanged

\* close_connections() raises: line 48.
CloseRaise(t) ==
    /\ TaskAt(t, "close")
    /\ Becomes(t, [t EXCEPT !.pc = "finished", !.err = TRUE])
    /\ ExceptHandler
    /\ UNCHANGED botConnected
    /\ EnvUnchanged

-----------------------------------------------------------------------------
(* The rest of the program *)

\* env.loop.run_forever() / run_until_complete() is entered.
StartLoop ==
    /\ Alive /\ ~loopRunning
    /\ loopRunning' = TRUE
    /\ lastFilter' = NoCall
    /\ record' = NoRecord
    /\ UNCHANGED <<count, watchdog, timers, tasks, exitStatus, botPresent,
                   botConnected, streak, streakShutdown, cycleFires>>

\* shutdown() called without a prerequisite by another component.
Shutdown ==
    /\ Alive /\ CanShutdown
    /\ shutdown("none")
    /\ lastFilter' = NoCall
    /\ record' = NoRecord
    /\ UNCHANGED <<count, watchdog, timers, loopRunning, botPresent, botConnected,
                   streak, streakShutdown, cycleFires>>

Init ==
    /\ count = 0
    /\ watchdog = 1
    /\ timers = {[id |-> 1, delay |-> InitDelay]}
    /\ tasks = EmptyBag
    /\ exitStatus = "running"
    /\ loopRunning = FALSE
    /\ botPresent \in BOOLEAN
    /\ botConnected \in (IF botPresent THEN BOOLEAN ELSE {FALSE})
    /\ lastFilter = NoCall
    /\ streak = 0
    /\ streakShutdown = FALSE
    /\ cycleFires = 0
    /\ record = NoRecord

TaskStep ==
    \E t \in BagToSet(tasks) :
        \/ ExitHandlerStart(t)
        \/ PrerequisiteDone(t)
        \/ PrerequisiteTimeout(t)
        \/ PrerequisiteRaise(t)
        \/ DisconnectReturn(t)
        \/ DisconnectRaise(t)
        \/ CloseReturn(t)
        \/ CloseRaise(t)

Next ==
    \/ StartLoop
    \/ FilterRecord
    \/ Heartbeat
    \/ WatchdogExpire
    \/ Shutdown
    \/ TaskStep

Spec == Init /\ [][Next]_vars

\* The event loop runs every ready task and every completed await.
FairSpec == Spec /\ WF_vars(TaskStep)

\* The same program, with the calls of filter and fine kept in record.
TraceNext ==
    \/ StartLoop
    \/ FilterTraced
    \/ HeartbeatTraced
    \/ WatchdogExpire
    \/ Shutdown
    \/ TaskStep

TraceSpec == Init /\ [][TraceNext]_vars

\* The program together with the access log of the web server.
AccessNext ==
    \/ AccessTraced
    \/ Next

AccessSpec == Init /\ [][AccessNext]_vars

\* The program while records that are no success record are all that arrives.
QuietRecord ==
    \E msg \in Messages :
        /\ Contains(SkippedPat, msg) \/ ~Contains(SuccessPat, msg)
        /\ FilterCall(msg)
        /\ record' = NoRecord

QuietNext ==
    \/ StartLoop
    \/ QuietRecord
    \/ WatchdogExpire
    \/ TaskStep

\* The loop gets started, runs its tasks, and runs a scheduled handle that
\* nothing cancels once its delay has passed.
QuietSpec ==
    /\ Init /\ [][QuietNext]_vars
    /\ WF_vars(StartLoop) /\ WF_vars(TaskStep) /\ WF_vars(WatchdogExpire)

-----------------------------------------------------------------------------
(* Properties *)

Tasks == BagToSet(tasks)

\* How many tasks have called env.bot.disconnect(), Tortoise.close_connections().
DisconnectCalls == BagCardinality([t \in {u \in Tasks : u.disc} |-> tasks[t]])
CloseCalls == BagCardinality([t \in {u \in Tasks : u.closed} |-> tasks[t]])

\* The task has reached line 44.
ReachedDisconnect(t) == t.pc \in {"disconnect", "close"} \/ t.disc \/ t.closed

Notified == lastFilter.notified \in {"task", "prerequisite"}

\* C1: with a bot and a running loop, after the Nth consecutive failure record
\* the counter is N, and that record dispatched a notification iff N is a
\* positive multiple of 5.
C1_CountAndNotification ==
    (lastFilter.branch = "failure" /\ botPresent /\ loopRunning) =>
        /\ count = streak
        /\ Notified <=> (streak > 0 /\ streak % 5 = 0)

C1_Witness ==
    /\ lastFilter.branch = "failure" /\ botPresent /\ loopRunning
    /\ streak = 5 /\ count = 5 /\ lastFilter.notified = "task"
    /\ tasks = EmptyBag

\* C2: with a bot and a running loop, after the Nth consecutive failure record
\* the filter has submitted a shutdown request iff N >= 15; the records 5 and
\* 10 dispatch their notification as a task of its own and request no shutdown.
C2_ShutdownIffTerminal ==
    (lastFilter.branch = "failure" /\ botPresent /\ loopRunning) =>
        /\ streakShutdown <=> streak >= 15
        /\ lastFilter.shutdown <=> (streak >= 15 /\ streak % 5 = 0)
        /\ streak \in {5, 10} => lastFilter.notified = "task"

C2_Witness ==
    /\ lastFilter.branch = "failure" /\ botPresent /\ loopRunning
    /\ streak = 15 /\ streakShutdown /\ lastFilter.shutdown
    /\ \E t \in Tasks : t.prereq = "pending"

\* C3: disconnect and close_connections are each called at most once, however
\* many times shutdown is requested.
C3_TeardownOnce == DisconnectCalls <= 1 /\ CloseCalls <= 1

\* C4: the process exits with status 1 on every path.
C4_ExitStatusOne == ~Alive => exitStatus = "1"

\* C5: once shutdown() has created a teardown task, the process terminates.
C5_ShutdownTerminates == (tasks # EmptyBag) ~> ~Alive

C5_Witness ==
    /\ ~Alive
    /\ \E t \in Tasks : t.pc = "finished" /\ t.prereq = "cancelled" /\ t.err

\* C6: whether the prerequisite completes, times out or raises, the teardown
\* goes on to the disconnect step and the storage close.
C6_PrerequisiteNeverAborts ==
    \A t \in Tasks :
        t.prereq \in {"done", "cancelled", "raised"} => ReachedDisconnect(t)

\* C7: every teardown run that reaches the disconnect step has called
\* close_connections when the process terminates.
C7_CloseBeforeExit ==
    ~Alive => \A t \in Tasks : ReachedDisconnect(t) => t.closed

\* C8: a success record leaves the counter at 0 and the watchdog re-armed with
\* the all-clear delay, the one pending expiry being that of the handle now
\* held, and the record is suppressed.
C8_SuccessResets ==
    lastFilter.branch = "success" =>
        /\ count = 0
        /\ timers = {[id |-> watchdog, delay |-> 900]}
        /\ cycleFires = 0
        /\ lastFilter.result = "suppress"

C8_Witness ==
    /\ lastFilter.branch = "success" /\ count = 0 /\ tasks # EmptyBag
    /\ timers = {[id |-> watchdog, delay |-> 900]}

\* An armed watchdog has one pending expiry, that of the handle it holds.
OnePending ==
    /\ Cardinality(timers) <= 1
    /\ \A h \in timers : h.id = watchdog
    /\ cycleFires <= 1
    /\ cycleFires = 0 <=> timers # {}

\* C9: while the watchdog is armed exactly one expiry is pending; only the
\* held handle is ever cancelled or run, so that no cancelled handle fires, and
\* the timer fires at most once between two arms.
C9_OnePendingExpiry ==
    /\ []OnePending
    /\ [][\A h \in timers \ timers' : h.id = watchdog]_vars

C9_Witness ==
    /\ Alive /\ cycleFires = 0 /\ watchdog = 1 /\ tasks # EmptyBag
    /\ timers = {[id |-> 1, delay |-> 900]}

ExpiryTask ==
    [pc |-> "created", prereq |-> IF botPresent THEN "pending" ELSE "none",
     disc |-> FALSE, closed |-> FALSE, err |-> FALSE]

\* C10: an expiry submits exactly one shutdown request, with the notification
\* as prerequisite when there is a bot and with none when there is not.
C10_ExpiryRequestsShutdown ==
    [][cycleFires' = cycleFires + 1 =>
          /\ tasks' = tasks (+) SetToBag({ExpiryTask})
          /\ exitStatus' = exitStatus]_vars

C10_Witness ==
    /\ cycleFires = 1 /\ ~botPresent /\ timers = {}
    /\ \E t \in Tasks : t.prereq = "none" /\ t.pc = "created"

\* C11: once the held handle has fired the watchdog makes no further
\* transition: nothing re-arms it.
C11_ExpiredIsTerminal ==
    [][cycleFires >= 1 =>
          timers' = timers /\ watchdog' = watchdog /\ cycleFires' = cycleFires]_vars

CreatedTask(prerequisite) ==
    [pc |-> "created", prereq |-> prerequisite, disc |-> FALSE, closed |-> FALSE,
     err |-> FALSE]

\* C12: shutdown() with the loop not running exits at once with status 1 and
\* creates no task; with the loop running it only adds a task that has not
\* started, and nothing of the teardown has run when it returns.
C12_ShutdownReturnsFirst ==
    /\ [](~loopRunning => tasks = EmptyBag)
    /\ []((lastFilter.shutdown /\ ~loopRunning) => exitStatus = "1")
    /\ []((lastFilter.shutdown /\ loopRunning) =>
            Alive /\ BagIn(CreatedTask("pending"), tasks))
    /\ [][(~loopRunning /\ exitStatus' # exitStatus) =>
            exitStatus' = "1" /\ tasks' = tasks]_vars
    /\ [][BagCardinality(tasks') > BagCardinality(tasks) =>
            /\ loopRunning /\ exitStatus' = exitStatus /\ botConnected' = botConnected
            /\ \E p \in {"none", "pending"} :
                   tasks' = tasks (+) SetToBag({CreatedTask(p)})]_vars

C12_Witness ==
    /\ lastFilter.shutdown /\ ~loopRunning
    /\ exitStatus = "1" /\ tasks = EmptyBag /\ count = 15

Traced(source) == record.source = source

\* C13, as claimed: first 'skipped: maximum number of running instances
\* reached' passes, then 'executed successfully' is suppressed, then
\* 'Running job ' is suppressed, and anything else passes.
C13_RulesAsClaimed ==
    Traced("apscheduler") =>
        IF Contains(<<SKIPPED>>, record.msg)
        THEN lastFilter.result = "pass"
        ELSE IF Contains(<<"executed successfully">>, record.msg)
        THEN lastFilter.result = "suppress"
        ELSE IF Contains(<<"Running job", " ">>, record.msg)
        THEN lastFilter.result = "suppress"
        ELSE lastFilter.result = "pass"

\* C13, amended: the second rule is ' executed successfully' with its leading
\* blank and the third is 'Running job "run_monitor_task'; a record of the
\* first rule is counted as a failure and never suppressed.
C13_Rules ==
    Traced("apscheduler") =>
        IF Contains(<<SKIPPED>>, record.msg)
        THEN lastFilter.branch = "failure" /\ lastFilter.result # "suppress"
        ELSE IF Contains(<<" ", "executed successfully">>, record.msg)
        THEN lastFilter.branch = "success" /\ lastFilter.result = "suppress"
        ELSE IF Contains(<<"Running job", " ", "\"run_monitor_task">>, record.msg)
        THEN lastFilter.branch = "jobstart" /\ lastFilter.result = "suppress"
        ELSE lastFilter.branch = "nomatch" /\ lastFilter.result = "pass"

C13_Witness ==
    /\ Traced("apscheduler")
    /\ record.msg = <<"Job", " ", "executed successfully", " ", SKIPPED>>
    /\ lastFilter.branch = "failure" /\ count = 1

\* C14: a failure record passes whatever the counter is.
C14_FailureAlwaysPasses ==
    lastFilter.branch = "failure" => lastFilter.result = "pass"

\* C15, as claimed: fine(delay) leaves the counter and the watchdog as a
\* success record with that delay would: the counter 0 and the watchdog armed
\* with the delay.
C15_HeartbeatAsSuccess ==
    Traced("fine") =>
        /\ count = 0
        /\ timers = {[id |-> watchdog, delay |-> record.delay]}

\* C15, amended: fine(delay) leaves the watchdog as a success record with that
\* delay would, and leaves the counter as it was.
C15_HeartbeatRearmsOnly ==
    [][record'.source = "fine" =>
          /\ count' = count
          /\ timers' = {[id |-> watchdog', delay |-> record'.delay]}
          /\ cycleFires' = 0]_vars

C15_Witness ==
    /\ Traced("fine") /\ record.delay = 300 /\ count = 3
    /\ timers = {[id |-> watchdog, delay |-> 300]}

\* C16: the access filter suppresses a record exactly when its level is at
\* most INFO and its message has no 'Mozilla', and it changes neither the
\* counter nor the watchdog.
C16_AccessFilter ==
    /\ [](Traced("aiohttp.access") =>
            /\ lastFilter.result \in {"pass", "suppress"}
            /\ lastFilter.result = "suppress" <=>
                   (record.levelno <= 20 /\ ~Contains(<<"Mozilla">>, record.msg)))
    /\ [][record'.source = "aiohttp.access" =>
            UNCHANGED <<count, watchdog, timers, cycleFires>>]_vars

C16_Witness ==
    /\ Traced("aiohttp.access") /\ record.levelno = 20
    /\ ~Contains(<<"Mozilla">>, record.msg)
    /\ lastFilter.result = "suppress" /\ count = 3

\* C17: the counter is a natural number; a failure record adds 1, a success
\* record sets it to 0, and nothing else changes it.
C17_CounterFrame ==
    /\ [](count \in Nat)
    /\ [][/\ lastFilter'.branch = "failure" => count' = count + 1
          /\ lastFilter'.branch = "success" => count' = 0
          /\ lastFilter'.branch \notin {"failure", "success"} => count' = count]_vars

C17_Witness ==
    /\ lastFilter.branch = "jobstart" /\ count = 7 /\ tasks # EmptyBag

\* C18: without a bot, the 15th failure record still submits the shutdown
\* request.
C18_ShutdownWithoutBot ==
    (lastFilter.branch = "failure" /\ ~botPresent /\ streak = 15) =>
        lastFilter.shutdown

\* C19, as claimed: a timeout of the wait never cancels the prerequisite.
C19_NeverCancelled == \A t \in Tasks : t.prereq # "cancelled"

\* C19, amended: the timeout cancels the prerequisite: once a task is past the
\* wait its prerequisite has completed, raised or been cancelled, and none is
\* left running.
C19_NoneLeftRunning ==
    \A t \in Tasks :
        t.pc \in {"disconnect", "close", "finished"} =>
            t.prereq \in {"none", "done", "raised", "cancelled"}

C19_Witness ==
    \E t \in Tasks : t.prereq = "cancelled" /\ t.pc = "close" /\ Alive

\* C20, as claimed: if no success record arrives, the watchdog eventually
\* expires.
C20_AlwaysExpires == <>(cycleFires = 1)

\* C20, amended: armed with 300 from the start, the watchdog is left alone by
\* every record that is no success record, and it expires and requests a
\* shutdown unless the process has terminated before.
C20_ExpiresUnlessExited ==
    /\ [](cycleFires = 0 => timers = {[id |-> 1, delay |-> 300]})
    /\ [](cycleFires = 1 => timers = {} /\ tasks # EmptyBag)
    /\ [][lastFilter'.branch \in {"failure", "jobstart", "nomatch"} =>
            UNCHANGED <<timers, watchdog>>]_vars
    /\ <>(cycleFires = 1 \/ ~Alive)

C20_Witness ==
    /\ cycleFires = 1 /\ count = 7 /\ streak = 7
    /\ BagIn(CreatedTask("pending"), tasks)

====
